---- MODULE Spec2Model ----
(***************************************************************************)
(* Model of mycorrhiza.ml.model.Model: an adapter that resolves a          *)
(* dataset-or-partitions input to a feature matrix, filters its rows and   *)
(* delegates to a wrapped sklearn-style classifier.                        *)
(*                                                                         *)
(* A matrix is a sequence of rows; a row (a feature vector) is abstracted  *)
(* to an integer.  A label vector is a sequence of integers.  Python       *)
(* argument values carry their runtime type in the field t, which is what  *)
(* the isinstance tests of the code look at.                               *)
(***************************************************************************)
EXTENDS Integers, Sequences, FiniteSets, TLC

\* ------------------------------------------------------------------ bounds
MaxRows == 2      \* rows of a matrix whose rows are filtered
MaxIdx == 2       \* length of an include_indices / exclude_indices list
MaxParts == 2     \* length of a partitions list

Labels == {0, 1}
CoreCounts == {1, 2}

SeqsUpTo(S, n) == UNION {[1..k -> S] : k \in 0..n}

\* ------------------------------------------------------ python values
NoneVal == [t |-> "None", a |-> <<>>]
OtherVal == [t |-> "other", a |-> <<>>]
ListVal(s) == [t |-> "list", a |-> s]
ArrayVal(s) == [t |-> "ndarray", a |-> s]

\* the outcome of an expression: a value, or a raised exception
Ok(v) == [exc |-> "", msg |-> "", v |-> v]
Raise(e, m) == [exc |-> e, msg |-> m, v |-> <<>>]

\* ------------------------------------------------- external collaborators
Datasets == {"A", "B"}

\* Dataset.populations: the label sequence aligned to the samples
DatasetPopulations(d) == IF d = "A" THEN <<1, 0>> ELSE IF d = "B" THEN <<1>> ELSE <<>>

\* Dataset.load(): populates the samples, after which num_samples is truthy
DatasetLoad(ns, d) == [ns EXCEPT ![d] = Len(DatasetPopulations(d))]

\* mycorrhiza.dataset.helpers._partition: a collection of n_partitions
\* matrices built from the dataset; the worker count only parallelises it
_partition(d, path, n_partitions, n_loci, n_cores) ==
    [k \in 1..n_partitions |-> IF d = "A" THEN <<2, 1>> ELSE IF d = "B" THEN <<2>> ELSE <<>>]

\* the wrapped classifier: fit rejects misaligned or empty input and otherwise
\* learns the classes of the labels; a row is labelled by one of the classes
Unfitted == [fitted |-> FALSE, classes |-> {}]

ClfFit(c, X, y) ==
    IF Len(X) # Len(y)
    THEN [exc |-> "ValueError", msg |-> "inconsistent numbers of samples", clf |-> c]
    ELSE IF Len(X) = 0
    THEN [exc |-> "ValueError", msg |-> "0 samples", clf |-> c]
    ELSE [exc |-> "", msg |-> "", clf |-> [fitted |-> TRUE, classes |-> {y[i] : i \in 1..Len(y)}]]

ClfLabel(c, row) ==
    CHOOSE l \in c.classes :
        Cardinality({k \in c.classes : k < l}) = row % Cardinality(c.classes)

ClfPredict(c, X) ==
    IF ~c.fitted THEN Raise("NotFittedError", "not fitted")
    ELSE Ok([i \in 1..Len(X) |-> ClfLabel(c, X[i])])

ClfPredictProba(c, X) ==
    IF ~c.fitted THEN Raise("NotFittedError", "not fitted")
    ELSE Ok([i \in 1..Len(X) |-> 50 + 50 * ClfLabel(c, X[i])])

\* a call made to a collaborator, as recorded in the trace of a handler
Call(fn, ds, n, X, y) == [fn |-> fn, ds |-> ds, path |-> "", k |-> 0, j |-> 0, n |-> n, X |-> X, y |-> y]

\* --------------------------------------------------------- the adapter
service_path == "service"

\* `if dataset:`
truthy(dataset) == dataset # "None"

\* mutant: the test of num_samples is dropped
needs_load_always(num) == TRUE

\* `not dataset.num_samples`
needs_load(num) == num = 0

\* Model._get_partition
_get_partition(dataset, n_cores) == _partition(dataset, service_path, 1, 0, n_cores)[1]

PartitionCall(dataset, n_cores) ==
    [fn |-> "_partition", ds |-> dataset, path |-> service_path, k |-> 1, j |-> 0,
     n |-> n_cores, X |-> <<>>, y |-> <<>>]

\* mutant: the final else falls through with an empty partition
select_partition_default(dataset, partitions, n_cores) ==
    IF truthy(dataset) THEN Ok(_get_partition(dataset, n_cores))
    ELSE IF partitions.t = "list"
         THEN IF partitions.l = <<>>
              THEN Raise("IndexError", "list index out of range")
              ELSE Ok(partitions.l[1])
    ELSE IF partitions.t = "ndarray" THEN Ok(partitions.m)
    ELSE Ok(<<>>)

\* mutant: supplied partitions are tested before the dataset
select_partition_supplied(dataset, partitions, n_cores) ==
    IF partitions.t = "list"
    THEN IF partitions.l = <<>>
         THEN Raise("IndexError", "list index out of range")
         ELSE Ok(partitions.l[1])
    ELSE IF partitions.t = "ndarray" THEN Ok(partitions.m)
    ELSE IF truthy(dataset) THEN Ok(_get_partition(dataset, n_cores))
    ELSE Raise("ValueError", "Either dataset of partitions must be provided")

\* the if/elif/else that chooses the partition
select_partition(dataset, partitions, n_cores) ==
    IF truthy(dataset) THEN Ok(_get_partition(dataset, n_cores))
    ELSE IF partitions.t = "list"
         THEN IF partitions.l = <<>>
              THEN Raise("IndexError", "list index out of range")
              ELSE Ok(partitions.l[1])
    ELSE IF partitions.t = "ndarray" THEN Ok(partitions.m)
    ELSE Raise("ValueError", "Either dataset of partitions must be provided")

\* the populations of the dataset replace anything that is not an ndarray
dataset_populations(dataset, populations) ==
    IF truthy(dataset) /\ populations.t # "ndarray"
    THEN ArrayVal(DatasetPopulations(dataset))
    ELSE populations

\* mutant: populations are converted without the type check
check_populations_lenient(populations) == Ok(populations.a)

\* a list becomes an array, anything else but an array is rejected
check_populations(populations) ==
    IF populations.t = "list" THEN Ok(populations.a)
    ELSE IF populations.t # "ndarray" THEN Raise("ValueError", "Populations must be provided")
    ELSE Ok(populations.a)

\* numpy: an index i addresses row i, or row n+i when negative
InRange(n, i) == -n <= i /\ i < n
Norm(n, i) == IF i < 0 THEN n + i ELSE i

\* mutant: the indices set a boolean mask, which loses their order and repeats
take_masked(X, I) ==
    IF \A k \in 1..Len(I) : InRange(Len(X), I[k])
    THEN Ok(SelectSeq([i \in 1..Len(X) |->
                          IF \E k \in 1..Len(I) : Norm(Len(X), I[k]) = i - 1 THEN X[i] ELSE 0],
                      LAMBDA r : r # 0))
    ELSE Raise("IndexError", "index out of bounds")

\* numpy: X[I] for a list of integers I
take(X, I) ==
    IF \A k \in 1..Len(I) : InRange(Len(X), I[k])
    THEN Ok([k \in 1..Len(I) |-> X[Norm(Len(X), I[k]) + 1]])
    ELSE Raise("IndexError", "index out of bounds")

\* mutant: the mask starts False and the listed rows are set True
exclude_mask_inverted(n, E) ==
    IF \A k \in 1..Len(E) : InRange(n, E[k])
    THEN Ok([i \in 1..n |-> \E k \in 1..Len(E) : Norm(n, E[k]) = i - 1])
    ELSE Raise("IndexError", "index out of bounds")

\* numpy: m = np.full(n, True); m[E] = False
exclude_mask(n, E) ==
    IF \A k \in 1..Len(E) : InRange(n, E[k])
    THEN Ok([i \in 1..n |-> ~(\E k \in 1..Len(E) : Norm(n, E[k]) = i - 1)])
    ELSE Raise("IndexError", "index out of bounds")

RECURSIVE Compress(_, _)
Compress(X, m) ==
    IF X = <<>> THEN <<>>
    ELSE (IF Head(m) THEN <<Head(X)>> ELSE <<>>) \o Compress(Tail(X), Tail(m))

\* numpy: X[m] for a boolean mask m
take_mask(X, m) ==
    IF Len(m) # Len(X) THEN Raise("IndexError", "boolean index did not match")
    ELSE Ok(Compress(X, m))

\* isinstance(v, (np.ndarray, list))
is_indices(v) == v.t \in {"ndarray", "list"}

\* mutant: the two branches of the filter are swapped
filter_rows_exclude_first(X, n, include_indices, exclude_indices) ==
    IF is_indices(exclude_indices)
    THEN LET m == exclude_mask(n, exclude_indices.a)
         IN IF m.exc # "" THEN Raise(m.exc, m.msg) ELSE take_mask(X, m.v)
    ELSE IF is_indices(include_indices) THEN take(X, include_indices.a)
    ELSE Ok(X)

\* the row filter applied to one array; n is partition.shape[0]
filter_rows(X, n, include_indices, exclude_indices) ==
    IF is_indices(include_indices) THEN take(X, include_indices.a)
    ELSE IF is_indices(exclude_indices)
         THEN LET m == exclude_mask(n, exclude_indices.a)
              IN IF m.exc # "" THEN Raise(m.exc, m.msg) ELSE take_mask(X, m.v)
    ELSE Ok(X)

\* the calls made while resolving the input
resolve_trace(ns, dataset, n_cores) ==
    IF truthy(dataset)
    THEN (IF needs_load(ns[dataset]) THEN <<Call("load", dataset, 0, <<>>, <<>>)>> ELSE <<>>)
         \o <<PartitionCall(dataset, n_cores)>>
    ELSE <<>>

resolve_loaded(ns, dataset) ==
    IF truthy(dataset) /\ needs_load(ns[dataset]) THEN DatasetLoad(ns, dataset) ELSE ns

Outcome(c, ns, tr, exc, msg, ret, v) ==
    [clf |-> c, num_samples |-> ns, trace |-> tr, result |-> [exc |-> exc, msg |-> msg, ret |-> ret, v |-> v]]

\* Model.fit
fit(c, ns, a) ==
    LET part == select_partition(a.dataset, a.partitions, a.n_cores)
        ns1 == resolve_loaded(ns, a.dataset)
        tr1 == resolve_trace(ns, a.dataset, a.n_cores)
        pops == check_populations(dataset_populations(a.dataset, a.populations))
    IN  IF part.exc # "" THEN Outcome(c, ns1, tr1, part.exc, part.msg, "raise", <<>>)
        ELSE IF pops.exc # "" THEN Outcome(c, ns1, tr1, pops.exc, pops.msg, "raise", <<>>)
        ELSE LET X == filter_rows(part.v, Len(part.v), a.include_indices, a.exclude_indices)
                 y == filter_rows(pops.v, Len(part.v), a.include_indices, a.exclude_indices)
             IN  IF X.exc # "" THEN Outcome(c, ns1, tr1, X.exc, X.msg, "raise", <<>>)
                 ELSE IF y.exc # "" THEN Outcome(c, ns1, tr1, y.exc, y.msg, "raise", <<>>)
                 ELSE LET r == ClfFit(c, X.v, y.v)
                          tr2 == tr1 \o <<Call("clf.fit", "None", 0, X.v, y.v)>>
                      IN  IF r.exc # "" THEN Outcome(r.clf, ns1, tr2, r.exc, r.msg, "raise", <<>>)
                          ELSE Outcome(r.clf, ns1, tr2, "", "", "self", <<>>)

\* Model.predict_proba
predict_proba(c, ns, a) ==
    LET part == select_partition(a.dataset, a.partitions, a.n_cores)
        ns1 == resolve_loaded(ns, a.dataset)
        tr1 == resolve_trace(ns, a.dataset, a.n_cores)
    IN  IF part.exc # "" THEN Outcome(c, ns1, tr1, part.exc, part.msg, "raise", <<>>)
        ELSE LET X == filter_rows(part.v, Len(part.v), a.include_indices, a.exclude_indices)
             IN  IF X.exc # "" THEN Outcome(c, ns1, tr1, X.exc, X.msg, "raise", <<>>)
                 ELSE LET r == ClfPredictProba(c, X.v)
                          tr2 == tr1 \o <<Call("clf.predict_proba", "None", 0, X.v, <<>>)>>
                      IN  IF r.exc # "" THEN Outcome(c, ns1, tr2, r.exc, r.msg, "raise", <<>>)
                          ELSE Outcome(c, ns1, tr2, "", "", "value", r.v)

\* mutant: predict delegates to the classifier's predict_proba
predict_copied(c, ns, a) == predict_proba(c, ns, a)

\* Model.predict
predict(c, ns, a) ==
    LET part == select_partition(a.dataset, a.partitions, a.n_cores)
        ns1 == resolve_loaded(ns, a.dataset)
        tr1 == resolve_trace(ns, a.dataset, a.n_cores)
    IN  IF part.exc # "" THEN Outcome(c, ns1, tr1, part.exc, part.msg, "raise", <<>>)
        ELSE LET X == filter_rows(part.v, Len(part.v), a.include_indices, a.exclude_indices)
             IN  IF X.exc # "" THEN Outcome(c, ns1, tr1, X.exc, X.msg, "raise", <<>>)
                 ELSE LET r == ClfPredict(c, X.v)
                          tr2 == tr1 \o <<Call("clf.predict", "None", 0, X.v, <<>>)>>
                      IN  IF r.exc # "" THEN Outcome(c, ns1, tr2, r.exc, r.msg, "raise", <<>>)
                          ELSE Outcome(c, ns1, tr2, "", "", "value", r.v)

\* ------------------------------------------------------------- the state
VARIABLES
    clf,          \* the fitted state of the wrapped classifier (self.clf)
    num_samples,  \* num_samples of each dataset object (0 until loaded)
    call,         \* the arguments of the latest call of fit/predict/predict_proba
    trace,        \* the collaborator calls the latest call made, in order
    result        \* what the latest call returned or raised

vars == <<clf, num_samples, call, trace, result>>

\* ---------------------------------------------------- the callers' inputs
NoParts == [t |-> "None", m |-> <<>>, l |-> <<>>]
OtherParts == [t |-> "other", m |-> <<>>, l |-> <<>>]
ArrayParts(m) == [t |-> "ndarray", m |-> m, l |-> <<>>]
ListParts(l) == [t |-> "list", m |-> <<>>, l |-> l]

Args(dataset, populations, partitions, n_cores, include_indices, exclude_indices) ==
    [dataset |-> dataset, populations |-> populations, partitions |-> partitions,
     n_cores |-> n_cores, include_indices |-> include_indices, exclude_indices |-> exclude_indices]

\* inputs that vary how the partition and the populations are resolved
SuppliedMatrices == {<<>>, <<1>>, <<1, 2>>}
SuppliedLabels == {<<>>, <<0>>, <<0, 1>>}
PartitionLists == SeqsUpTo({<<1>>, <<1, 2>>}, MaxParts)

PartitionArgs ==
    {NoParts, OtherParts} \cup {ArrayParts(m) : m \in SuppliedMatrices}
        \cup {ListParts(l) : l \in PartitionLists}

PopulationArgs ==
    {NoneVal, OtherVal} \cup {ListVal(s) : s \in SuppliedLabels}
        \cup {ArrayVal(s) : s \in SuppliedLabels}

FitArgs ==
    {Args("None", p, q, 1, NoneVal, NoneVal) : p \in PopulationArgs, q \in PartitionArgs}
    \cup {Args(d, p, NoParts, n, NoneVal, NoneVal) :
            d \in Datasets, p \in PopulationArgs, n \in CoreCounts}
    \cup {Args(d, NoneVal, q, n, NoneVal, NoneVal) :
            d \in Datasets, q \in PartitionArgs, n \in CoreCounts}

PredictArgs ==
    {Args("None", NoneVal, q, 1, NoneVal, NoneVal) : q \in PartitionArgs}
    \cup {Args(d, NoneVal, q, n, NoneVal, NoneVal) :
            d \in Datasets, q \in PartitionArgs, n \in CoreCounts}

\* inputs that vary the row filter: a matrix of n distinct rows, its labels,
\* and index lists over the rows of the largest matrix
RowsMatrix(n) == [i \in 1..n |-> 10 + i]
RowsLabels(n) == [i \in 1..n |-> i % 2]
IndexLists == {ListVal(s) : s \in SeqsUpTo(0..(MaxRows - 1), MaxIdx)}
ShortIndexLists == {v \in IndexLists : Len(v.a) <= 1}
OtherIndices == {ListVal(<<-1>>), ArrayVal(<<0>>)}

FilterPairs ==
    {<<i, NoneVal>> : i \in IndexLists \cup OtherIndices}
        \cup {<<NoneVal, e>> : e \in IndexLists \cup OtherIndices}
        \cup (ShortIndexLists \X ShortIndexLists)

FitRowsArgs ==
    {Args("None", ArrayVal(RowsLabels(n)), ArrayParts(RowsMatrix(n)), 1, f[1], f[2]) :
        n \in 0..MaxRows, f \in FilterPairs}

PredictRowsArgs ==
    {Args("None", NoneVal, ArrayParts(RowsMatrix(n)), 1, f[1], f[2]) :
        n \in 0..MaxRows, f \in FilterPairs}

NoCall == [op |-> "none"] @@ Args("None", NoneVal, NoParts, 1, NoneVal, NoneVal)
NoResult == [exc |-> "", msg |-> "", ret |-> "none", v |-> <<>>]

\* Model.__init__: a fresh classifier; the datasets are not loaded yet
Init ==
    /\ clf = Unfitted
    /\ num_samples = [d \in Datasets |-> 0]
    /\ call = NoCall
    /\ trace = <<>>
    /\ result = NoResult

Apply(op, a, o) ==
    /\ clf' = o.clf
    /\ num_samples' = o.num_samples
    /\ trace' = o.trace
    /\ result' = o.result
    /\ call' = [op |-> op] @@ a

Fit == \E a \in FitArgs : Apply("fit", a, fit(clf, num_samples, a))

PredictProba == \E a \in PredictArgs : Apply("predict_proba", a, predict_proba(clf, num_samples, a))

Predict == \E a \in PredictArgs : Apply("predict", a, predict(clf, num_samples, a))

Next == Fit \/ PredictProba \/ Predict

Spec == Init /\ [][Next]_vars

FitRows == \E a \in FitRowsArgs : Apply("fit", a, fit(clf, num_samples, a))

PredictProbaRows == \E a \in PredictRowsArgs : Apply("predict_proba", a, predict_proba(clf, num_samples, a))

PredictRows == \E a \in PredictRowsArgs : Apply("predict", a, predict(clf, num_samples, a))

NextRows == FitRows \/ PredictProbaRows \/ PredictRows

SpecRows == Init /\ [][NextRows]_vars

\* ------------------------------------------------------------ properties
Ops == {"fit", "predict", "predict_proba"}
IsClfCall(e) == e.fn \in {"clf.fit", "clf.predict", "clf.predict_proba"}
ClfCalls(tr) == SelectSeq(tr, IsClfCall)
IsLoad(e) == e.fn = "load"
IsPartition(e) == e.fn = "_partition"

NoInputMsg == "Either dataset of partitions must be provided"
NoPopulationsMsg == "Populations must be provided"

\* what a handler does when called with arguments a
OpOutcome(op, c, ns, a) ==
    IF op = "fit" THEN fit(c, ns, a)
    ELSE IF op = "predict" THEN predict(c, ns, a)
    ELSE predict_proba(c, ns, a)

\* C1: a call of fit, predict or predict_proba with neither dataset nor
\* partitions raises the configuration error, makes no call to the wrapped
\* classifier and leaves its fitted state as it was.
C1_NoInputIsConfigurationError ==
    [][(call'.op \in Ops /\ call'.dataset = "None" /\ call'.partitions.t = "None")
        => /\ result'.exc = "ValueError"
           /\ result'.msg = NoInputMsg
           /\ ClfCalls(trace') = <<>>
           /\ clf' = clf]_vars

C1_Witness ==
    /\ call.op = "fit" /\ call.dataset = "None" /\ call.partitions.t = "None"
    /\ call.populations.t = "list"
    /\ clf.fitted
    /\ result.exc = "ValueError"

\* C2 (as claimed): when fit is given a dataset and explicit populations (a
\* list or an array), the labels passed to the classifier are the given ones.
C2_ExplicitPopulationsAreUsed ==
    (call.op = "fit" /\ truthy(call.dataset) /\ call.populations.t \in {"list", "ndarray"})
        => /\ ClfCalls(trace) # <<>>
           /\ ClfCalls(trace)[1].y = call.populations.a

\* C3: with a dataset, the matrix delegated is the partition derived from the
\* dataset, and the call delegates what it would without the partitions argument.
C3_DatasetWins ==
    (call.op \in Ops /\ truthy(call.dataset))
        => /\ Len(ClfCalls(trace)) = 1
           /\ ClfCalls(trace)[1].X = _get_partition(call.dataset, call.n_cores)
           /\ ClfCalls(trace) =
                ClfCalls(OpOutcome(call.op, Unfitted, num_samples,
                                   [call EXCEPT !.partitions = NoParts]).trace)

C3_Witness ==
    /\ call.op = "fit" /\ call.dataset = "A"
    /\ call.partitions.t = "list" /\ call.partitions.l # <<>>
    /\ call.partitions.l[1] # _get_partition("A", call.n_cores)
    /\ result.ret = "self"

\* the row of X that the numpy index i names
RowAt(X, i) == X[(IF i < 0 THEN Len(X) + i ELSE i) + 1]
Slice(X, I) == [k \in 1..Len(I) |-> RowAt(X, I[k])]
ValidIndices(n, I) == \A k \in 1..Len(I) : -n <= I[k] /\ I[k] < n

\* the call on the partition and populations sliced beforehand, with no filter
Presliced(c) ==
    Args("None",
         IF c.populations.t = "None" THEN NoneVal
         ELSE ArrayVal(Slice(c.populations.a, c.include_indices.a)),
         ArrayParts(Slice(c.partitions.m, c.include_indices.a)),
         1, NoneVal, NoneVal)

\* C4: with include_indices = I, each handler delegates exactly what it
\* delegates, unfiltered, on the partition (and populations) sliced to the rows
\* of I in the order of I.
C4_IncludeIsPreslicing ==
    (/\ call.op \in Ops /\ is_indices(call.include_indices) /\ call.partitions.t = "ndarray"
     /\ ValidIndices(Len(call.partitions.m), call.include_indices.a))
        => /\ Len(ClfCalls(trace)) = 1
           /\ ClfCalls(trace) =
                ClfCalls(OpOutcome(call.op, Unfitted, num_samples, Presliced(call)).trace)

C4_Witness ==
    /\ call.op = "fit" /\ call.include_indices = ListVal(<<1, 0>>)
    /\ Len(call.partitions.m) = 2
    /\ result.ret = "self"

\* the indices of 0..n-1 that E does not name, and the rows of X at them
Kept(n, E) == {i \in 0..(n - 1) : \A k \in 1..Len(E) : E[k] # i}
NthKept(n, E, k) == CHOOSE i \in Kept(n, E) : Cardinality({j \in Kept(n, E) : j < i}) = k - 1
KeptRows(X, n, E) == [k \in 1..Cardinality(Kept(n, E)) |-> X[NthKept(n, E, k) + 1]]

\* C5: with exclude_indices = E (indices of 0..N-1) and no include_indices,
\* the delegated rows are those whose index is not in E, in ascending order,
\* each once; fit restricts the populations to the same indices.
C5_ExcludeIsComplement ==
    (/\ call.op \in Ops /\ call.include_indices.t = "None" /\ is_indices(call.exclude_indices)
     /\ call.partitions.t = "ndarray"
     /\ \A k \in 1..Len(call.exclude_indices.a) :
            call.exclude_indices.a[k] \in 0..(Len(call.partitions.m) - 1))
        => LET n == Len(call.partitions.m)
               E == call.exclude_indices.a
           IN  /\ Len(ClfCalls(trace)) = 1
               /\ ClfCalls(trace)[1].X = KeptRows(call.partitions.m, n, E)
               /\ call.op = "fit" => ClfCalls(trace)[1].y = KeptRows(call.populations.a, n, E)

C5_Witness ==
    /\ call.op = "fit" /\ call.include_indices.t = "None"
    /\ call.exclude_indices = ListVal(<<0>>)
    /\ Len(call.partitions.m) = 2
    /\ result.ret = "self"

\* C6: predict and predict_proba leave the classifier's fitted state
\* unchanged, return what the classifier returns for the delegated matrix,
\* and a repeated call with the same inputs returns the same result.
C6_PredictReadsOnly ==
    [][call'.op \in {"predict", "predict_proba"}
        => /\ clf' = clf
           /\ ClfCalls(trace') # <<>> =>
                LET X == ClfCalls(trace')[1].X
                    r == IF call'.op = "predict" THEN ClfPredict(clf, X) ELSE ClfPredictProba(clf, X)
                IN  /\ ClfCalls(trace')[1].fn = "clf." \o call'.op
                    /\ result'.exc = r.exc
                    /\ result'.v = r.v
           /\ call' = call => result' = result]_vars

C6_Witness ==
    /\ call.op = "predict" /\ call.dataset = "A"
    /\ clf.fitted
    /\ result.ret = "value" /\ Len(result.v) = 2
    /\ ~(\E i \in 1..Len(trace) : IsLoad(trace[i]))

\* the partitions argument yields a partition
Resolves(q) == q.t = "ndarray" \/ (q.t = "list" /\ q.l # <<>>)

\* C7: fit without a dataset, with partitions that yield a partition and with
\* populations that are neither a list nor an array, raises the populations
\* error before any call to the classifier and leaves its fitted state as it
\* was; with a dataset fit never raises the populations error.
C7_PopulationsRequired ==
    [][call'.op = "fit"
        => /\ (/\ call'.dataset = "None" /\ Resolves(call'.partitions)
               /\ call'.populations.t \notin {"list", "ndarray"})
              => /\ result'.exc = "ValueError"
                 /\ result'.msg = NoPopulationsMsg
                 /\ ClfCalls(trace') = <<>>
                 /\ clf' = clf
           /\ truthy(call'.dataset) => result'.msg # NoPopulationsMsg]_vars

C7_Witness ==
    /\ call.op = "fit" /\ call.dataset = "None"
    /\ call.partitions.t = "ndarray" /\ call.populations.t = "None"
    /\ clf.fitted
    /\ result.msg = NoPopulationsMsg

\* C8: when both include_indices and exclude_indices are given, each handler
\* delegates (or fails) exactly as it does with include_indices alone.
C8_IncludeWins ==
    (call.op \in Ops /\ is_indices(call.include_indices) /\ is_indices(call.exclude_indices))
        => LET alone == OpOutcome(call.op, Unfitted, num_samples,
                                  [call EXCEPT !.exclude_indices = NoneVal])
           IN  /\ ClfCalls(trace) = ClfCalls(alone.trace)
               /\ ClfCalls(trace) = <<>> => result = alone.result

C8_Witness ==
    /\ call.op = "fit"
    /\ call.include_indices = ListVal(<<0>>) /\ call.exclude_indices = ListVal(<<0>>)
    /\ Len(call.partitions.m) = 2
    /\ result.ret = "self"

\* C9 (as claimed): without a dataset, partitions that yield no partition
\* (absent, an empty list, or neither list nor matrix) raise the configuration
\* error and no other error; a non-empty list yields its first element.
C9_NoPartitionIsConfigurationError ==
    (call.op \in Ops /\ call.dataset = "None")
        => /\ ~Resolves(call.partitions)
              => (result.exc = "ValueError" /\ result.msg = NoInputMsg)
           /\ (call.partitions.t = "list" /\ call.partitions.l # <<>> /\ ClfCalls(trace) # <<>>)
              => ClfCalls(trace)[1].X = call.partitions.l[1]

\* C10: a call that passes a dataset calls load() exactly when num_samples is
\* falsy, before the partition routine; calls the partition routine once, with
\* group count 1, feature-group index 0 and the caller's worker count; and
\* only then delegates element zero of its result to the classifier.
C10_LoadThenPartitionThenDelegate ==
    [][(call'.op \in Ops /\ truthy(call'.dataset))
        => LET d == call'.dataset
               loads == SelectSeq(trace', IsLoad)
               parts == SelectSeq(trace', IsPartition)
           IN  /\ num_samples[d] = 0 => (Len(loads) = 1 /\ loads[1].ds = d)
               /\ num_samples[d] # 0 => loads = <<>>
               /\ parts = <<[fn |-> "_partition", ds |-> d, path |-> service_path, k |-> 1,
                             j |-> 0, n |-> call'.n_cores, X |-> <<>>, y |-> <<>>]>>
               /\ trace' = loads \o parts \o ClfCalls(trace')
               /\ Len(ClfCalls(trace')) = 1
               /\ ClfCalls(trace')[1].X = _partition(d, service_path, 1, 0, call'.n_cores)[1]]_vars

C10_Witness ==
    /\ call.op = "predict_proba" /\ call.dataset = "B" /\ call.n_cores = 2
    /\ Len(trace) = 2 /\ IsPartition(trace[1])
    /\ result.ret = "value"

====
